---- MODULE Spec2Model ----
(***************************************************************************)
(* Model of Thoreaii.py, a Streamlit vocabulary trainer.                   *)
(*                                                                         *)
(* A Streamlit script is executed top to bottom once per user interaction  *)
(* (a widget change or a button click).  st.session_state and the content  *)
(* of the file uploader survive from one script run to the next; the CSV   *)
(* file survives from one browser session to the next.  Every action below *)
(* is one complete script run, triggered by one interaction.               *)
(*                                                                         *)
(* Strings are sequences of characters, each character a TLA+ string, so   *)
(* that strip, split and substring search are computed as Python computes  *)
(* them.                                                                   *)
(***************************************************************************)
EXTENDS Integers, Sequences, FiniteSets, TLC

VARIABLES
    status,            \* "ok", or "error" when init_session_state raised
    file,              \* vocabularies.csv on disk
    vocab_df,          \* st.session_state.vocab_df, a sequence of rows
    flashcards,        \* st.session_state.flashcards
    current_index,     \* st.session_state.current_index (0-based)
    show_translation,  \* st.session_state.show_translation
    uploaded_files,    \* documents held by the st.file_uploader widget
    overview_shown,    \* the save / clear buttons were rendered by the last run
    op,                \* the handler the last script run executed
    success_count,     \* the number in the last run's st.success of the upload block
    shown,             \* the flashcard the last run rendered
    text,              \* parser harness: the input of parse_vocabulary
    parsed,            \* parser harness: parse_vocabulary has been applied
    vocab_pairs        \* parser harness: the output of parse_vocabulary

vars == <<status, file, vocab_df, flashcards, current_index, show_translation,
          uploaded_files, overview_shown, op, success_count, shown,
          text, parsed, vocab_pairs>>

appVars == <<status, file, vocab_df, flashcards, current_index, show_translation,
             uploaded_files, overview_shown, op, success_count, shown>>

parserVars == <<text, parsed, vocab_pairs>>

----------------------------------------------------------------------------
(* Bounds                                                                  *)

MaxTextLen == 5      \* longest text the parser harness enumerates
MaxUploads == 2      \* most documents the uploader widget holds at once

----------------------------------------------------------------------------
(* Strings                                                                 *)

NL == "\n"

\* U+2013 and U+2014, the dashes of the second and third separator.
EN_DASH == "en-dash"
EM_DASH == "em-dash"

\* str.strip() removes leading and trailing whitespace.
Whitespace == {" ", NL}

\* The characters the parser harness builds its texts from: a letter, the
\* blank, the line break and every character of a supported separator.
Alphabet == {"a", " ", "-", EN_DASH, EM_DASH, ":", "=", NL}

Concat(seqs) ==
    LET RECURSIVE cat(_)
        cat(k) == IF k > Len(seqs) THEN <<>> ELSE seqs[k] \o cat(k + 1)
    IN  cat(1)

\* The positions at which sep occurs in line.
Occurrences(sep, line) ==
    {i \in 1..(Len(line) - Len(sep) + 1) : SubSeq(line, i, i + Len(sep) - 1) = sep}

\* Python: sep in line
Contains(sep, line) == Occurrences(sep, line) # {}

FirstOccurrence(sep, line) ==
    CHOOSE i \in Occurrences(sep, line) : \A j \in Occurrences(sep, line) : i <= j

\* Python: line.split(sep, 1), for a line that contains sep
SplitOnce(line, sep) ==
    LET i == FirstOccurrence(sep, line)
    IN  <<SubSeq(line, 1, i - 1), SubSeq(line, i + Len(sep), Len(line))>>

RECURSIVE LStrip(_)
LStrip(s) ==
    IF s # <<>> /\ Head(s) \in Whitespace THEN LStrip(Tail(s)) ELSE s

RECURSIVE RStrip(_)
RStrip(s) ==
    IF s # <<>> /\ s[Len(s)] \in Whitespace
        THEN RStrip(SubSeq(s, 1, Len(s) - 1))
        ELSE s

\* Python: s.strip()
Strip(s) == RStrip(LStrip(s))

\* Python: text.splitlines(); no empty last line after a final line break.
RECURSIVE SplitLines(_)
SplitLines(t) ==
    IF t = <<>> THEN <<>>
    ELSE IF Contains(<<NL>>, t)
        THEN LET i == FirstOccurrence(<<NL>>, t)
             IN  <<SubSeq(t, 1, i - 1)>> \o SplitLines(SubSeq(t, i + 1, Len(t)))
        ELSE <<t>>

----------------------------------------------------------------------------
(* Line parser                                                             *)

SUPPORTED_SEPARATORS ==
    << <<" ", "-", " ">>, <<" ", EN_DASH, " ">>, <<" ", EM_DASH, " ">>, <<":">>, <<"=">> >>

Row(word, translation) == [word |-> word, translation |-> translation]

\* The body of "if sep in line:" for the separator that matched: the pairs
\* (none or one) the line contributes.
SplitPair(line, sep) ==
    LET parts == SplitOnce(line, sep)
        word == Strip(parts[1])
        translation == Strip(parts[2])
    IN  IF word # <<>> /\ translation # <<>>
            THEN <<Row(word, translation)>>
            ELSE <<>>

\* Mutant: the separator that occurs leftmost in the line is taken.
TrySeparatorsMutLeftmost(line, k) ==
    LET hits == {j \in k..Len(SUPPORTED_SEPARATORS) :
                     Contains(SUPPORTED_SEPARATORS[j], line)}
        pos(j) == FirstOccurrence(SUPPORTED_SEPARATORS[j], line)
    IN  IF hits = {} THEN <<>>
        ELSE LET j == CHOOSE x \in hits : \A y \in hits :
                          pos(x) < pos(y) \/ (pos(x) = pos(y) /\ x <= y)
             IN  SplitPair(line, SUPPORTED_SEPARATORS[j])

\* Mutant: a separator that leaves a part empty is skipped (no break).
RECURSIVE TrySeparatorsMutNoBreak(_, _)
TrySeparatorsMutNoBreak(line, k) ==
    IF k > Len(SUPPORTED_SEPARATORS) THEN <<>>
    ELSE IF Contains(SUPPORTED_SEPARATORS[k], line)
             /\ SplitPair(line, SUPPORTED_SEPARATORS[k]) # <<>>
        THEN SplitPair(line, SUPPORTED_SEPARATORS[k])
        ELSE TrySeparatorsMutNoBreak(line, k + 1)

\* for sep in SUPPORTED_SEPARATORS: ... break, from the k-th separator on.
RECURSIVE TrySeparators(_, _)
TrySeparators(line, k) ==
    IF k > Len(SUPPORTED_SEPARATORS) THEN <<>>
    ELSE IF Contains(SUPPORTED_SEPARATORS[k], line)
        THEN SplitPair(line, SUPPORTED_SEPARATORS[k])
        ELSE TrySeparators(line, k + 1)

\* One iteration of "for line in text.splitlines()".
ParseLine(rawLine) ==
    LET line == Strip(rawLine)
    IN  IF line = <<>> THEN <<>> ELSE TrySeparators(line, 1)

parse_vocabulary(t) ==
    LET lines == SplitLines(t)
    IN  Concat([k \in 1..Len(lines) |-> ParseLine(lines[k])])

----------------------------------------------------------------------------
(* Data frames and the CSV file                                            *)

\* A data frame is the sequence of its rows; a cell is a string or NaN.
\* NaN is a one-element sequence whose element is no character.
NaN == <<"NaN">>

\* The cell texts pandas.read_csv reads as a missing value by default.
NA_VALUES ==
    { <<>>,
      <<"#", "N", "/", "A">>,
      <<"#", "N", "/", "A", " ", "N", "/", "A">>,
      <<"#", "N", "A">>,
      <<"-", "1", ".", "#", "I", "N", "D">>,
      <<"-", "1", ".", "#", "Q", "N", "A", "N">>,
      <<"-", "N", "a", "N">>,
      <<"-", "n", "a", "n">>,
      <<"1", ".", "#", "I", "N", "D">>,
      <<"1", ".", "#", "Q", "N", "A", "N">>,
      <<"<", "N", "A", ">">>,
      <<"N", "/", "A">>,
      <<"N", "A">>,
      <<"N", "U", "L", "L">>,
      <<"N", "a", "N">>,
      <<"N", "o", "n", "e">>,
      <<"n", "/", "a">>,
      <<"n", "a", "n">>,
      <<"n", "u", "l", "l">> }

\* DataFrame.to_csv writes a missing value as an empty cell and a string as
\* itself (no cell of the model holds a comma, a quote or a line break).
CsvCell(v) == IF v = NaN THEN <<>> ELSE v

\* pandas.read_csv turns the cell texts of NA_VALUES into NaN and keeps
\* every other text (no cell of the model is a number or a boolean).
CellValue(c) == IF c \in NA_VALUES THEN NaN ELSE c

to_csv(df) ==
    [k \in 1..Len(df) |-> Row(CsvCell(df[k].word), CsvCell(df[k].translation))]

read_csv(rows) ==
    [k \in 1..Len(rows) |-> Row(CellValue(rows[k].word), CellValue(rows[k].translation))]

\* pd.DataFrame(columns=["word", "translation"])
EmptyFrame == <<>>

\* vocabularies.csv: absent, present and readable as CSV (its data rows),
\* or present and not readable (empty, undecodable, not permitted).
AbsentFile == [state |-> "absent", rows |-> <<>>]
UnreadableFile == [state |-> "unreadable", rows |-> <<>>]
CsvFile(rows) == [state |-> "csv", rows |-> rows]

\* The result of a call: the value returned, or raised = TRUE when the call
\* ends in an exception.
Returned(df) == [raised |-> FALSE, df |-> df]
Raised == [raised |-> TRUE, df |-> EmptyFrame]

load_saved_vocabularies(f) ==
    IF f.state = "absent" THEN Returned(EmptyFrame)
    ELSE IF f.state = "csv" THEN Returned(read_csv(f.rows))
    ELSE Raised

\* Mutant: the rows are appended to the file (mode="a").
save_vocabulariesMutAppend(df, f) == CsvFile(f.rows \o to_csv(df))

\* df.to_csv(VOCAB_STORAGE_FILE, index=False): the file after the call.
save_vocabularies(df, f) == CsvFile(to_csv(df))

\* Mutant: the concatenation is kept as it is.
drop_duplicatesMutNone(df) == df

\* Mutant: the last of equal rows is kept (keep="last").
drop_duplicatesMutKeepLast(df) ==
    LET RECURSIVE keep(_)
        keep(k) ==
            IF k > Len(df) THEN <<>>
            ELSE IF \E j \in (k + 1)..Len(df) : df[j] = df[k]
                THEN keep(k + 1)
                ELSE <<df[k]>> \o keep(k + 1)
    IN  keep(1)

\* DataFrame.drop_duplicates().reset_index(drop=True): the first of equal
\* rows is kept; missing values compare equal.
drop_duplicates(df) ==
    LET RECURSIVE keep(_)
        keep(k) ==
            IF k > Len(df) THEN <<>>
            ELSE IF \E j \in 1..(k - 1) : df[j] = df[k]
                THEN keep(k + 1)
                ELSE <<df[k]>> \o keep(k + 1)
    IN  keep(1)

NoDuplicates(df) == \A i, j \in 1..Len(df) : df[i] = df[j] => i = j

----------------------------------------------------------------------------
(* Uploaded documents                                                      *)

\* A document is modelled by the text extract_text_from_pdf returns for it.
\* "a=b", "NA:a", "a=b": three lines, the first and the last the same pair,
\* the word of the second one of NA_VALUES.
DocRepeat == <<"a", "=", "b", NL, "N", "A", ":", "a", NL, "a", "=", "b">>

\* "a - b": the pair of the first line of DocRepeat.
DocSingle == <<"a", " ", "-", " ", "b">>

\* "a b" and ":a=b": no line yields a pair.
DocNoPairs == <<"a", " ", "b", NL, ":", "a", "=", "b">>

Docs == {DocRepeat, DocSingle, DocNoPairs}

extract_text_from_pdf(doc) == doc

----------------------------------------------------------------------------
(* The script                                                              *)

\* parse_vocabulary(extract_text_from_pdf(file)) of every document.
ParsedDocs == [doc \in Docs |-> parse_vocabulary(extract_text_from_pdf(doc))]

\* st.success of the upload block: <<n>> when the run reported n, else <<>>.
NoCount == <<>>

\* for file in uploaded_files: all_vocab.extend(vocab)
AllVocab(files) == Concat([k \in 1..Len(files) |-> ParsedDocs[files[k]]])

\* if uploaded_files: ... : the frame after the block and the count reported.
UploadBlock(df, files) ==
    LET new_df == AllVocab(files)
    IN  IF files # <<>> /\ new_df # <<>>
            THEN [df |-> drop_duplicates(df \o new_df), count |-> <<Len(new_df)>>]
            ELSE [df |-> df, count |-> NoCount]

\* Mutant: clear leaves the session's cards in place.
OverviewSectionMutKeepsCards(trigger, df, cards, f) ==
    IF df = EmptyFrame
        THEN [shown |-> FALSE, fired |-> FALSE, df |-> df, cards |-> cards, file |-> f]
    ELSE IF trigger = "save"
        THEN [shown |-> TRUE, fired |-> TRUE, df |-> df, cards |-> cards,
              file |-> save_vocabularies(df, f)]
    ELSE IF trigger = "clear"
        THEN [shown |-> TRUE, fired |-> TRUE, df |-> EmptyFrame, cards |-> cards,
              file |-> f]
    ELSE [shown |-> TRUE, fired |-> FALSE, df |-> df, cards |-> cards, file |-> f]

\* if not vocab_df.empty: the save and the clear button.  shown tells whether
\* the buttons were rendered, fired whether the handler of the clicked one ran.
OverviewSection(trigger, df, cards, f) ==
    IF df = EmptyFrame
        THEN [shown |-> FALSE, fired |-> FALSE, df |-> df, cards |-> cards, file |-> f]
    ELSE IF trigger = "save"
        THEN [shown |-> TRUE, fired |-> TRUE, df |-> df, cards |-> cards,
              file |-> save_vocabularies(df, f)]
    ELSE IF trigger = "clear"
        THEN [shown |-> TRUE, fired |-> TRUE, df |-> EmptyFrame, cards |-> <<>>,
              file |-> f]
    ELSE [shown |-> TRUE, fired |-> FALSE, df |-> df, cards |-> cards, file |-> f]

\* The orders DataFrame.sample(frac=1) can return the rows in.
Perms(n) == {f \in [1..n -> 1..n] : \A i, j \in 1..n : f[i] = f[j] => i = j}

\* Mutant: the rows are drawn with replacement.
SampleMutWithReplacement(df, perm) == [k \in 1..Len(df) |-> df[perm[1]]]

\* vocab_df.sample(frac=1).to_dict("records")
Sample(df, perm) == [k \in 1..Len(df) |-> df[perm[k]]]

\* Mutant: the cards of a running session follow the live store.
StartSectionMutLiveStore(trigger, df, cards, index, show, perm) ==
    IF trigger = "start" /\ df # EmptyFrame
        THEN [cards |-> Sample(df, perm), index |-> 0, show |-> FALSE]
    ELSE IF cards # <<>>
        THEN [cards |-> df, index |-> index, show |-> show]
    ELSE [cards |-> cards, index |-> index, show |-> show]

\* Mutant: the session is also set up when the store is empty.
StartSectionMutNoEmptyCheck(trigger, df, cards, index, show, perm) ==
    IF trigger = "start"
        THEN [cards |-> IF df = EmptyFrame THEN <<>> ELSE Sample(df, perm),
              index |-> 0, show |-> FALSE]
        ELSE [cards |-> cards, index |-> index, show |-> show]

\* if st.button("Lernmodus starten"): ...
StartSection(trigger, df, cards, index, show, perm) ==
    IF trigger = "start" /\ df # EmptyFrame
        THEN [cards |-> Sample(df, perm), index |-> 0, show |-> FALSE]
        ELSE [cards |-> cards, index |-> index, show |-> show]

\* Mutant: the position does not wrap.
NextIndexMutNoWrap(i, n) == i + 1

\* (current_index + 1) % len(flashcards)
NextIndex(i, n) == (i + 1) % n

\* What the flashcard section renders: nothing, or the card and whether its
\* translation is visible.
NoCard == <<>>

\* Mutant: advance leaves the translation as it is.
CardSectionMutKeepsShown(trigger, cards, index, show) ==
    IF cards = <<>>
        THEN [shown |-> NoCard, fired |-> FALSE, index |-> index, show |-> show]
    ELSE IF trigger = "reveal"
        THEN [shown |-> <<[card |-> cards[index + 1], translation_visible |-> show]>>,
              fired |-> TRUE, index |-> index, show |-> ~show]
    ELSE IF trigger = "advance"
        THEN [shown |-> <<[card |-> cards[index + 1], translation_visible |-> show]>>,
              fired |-> TRUE, index |-> NextIndex(index, Len(cards)), show |-> show]
    ELSE [shown |-> <<[card |-> cards[index + 1], translation_visible |-> show]>>,
          fired |-> FALSE, index |-> index, show |-> show]

\* Mutant: the reveal button shows the translation and never hides it.
CardSectionMutRevealSets(trigger, cards, index, show) ==
    IF cards = <<>>
        THEN [shown |-> NoCard, fired |-> FALSE, index |-> index, show |-> show]
    ELSE IF trigger = "reveal"
        THEN [shown |-> <<[card |-> cards[index + 1], translation_visible |-> show]>>,
              fired |-> TRUE, index |-> index, show |-> TRUE]
    ELSE IF trigger = "advance"
        THEN [shown |-> <<[card |-> cards[index + 1], translation_visible |-> show]>>,
              fired |-> TRUE, index |-> NextIndex(index, Len(cards)), show |-> FALSE]
    ELSE [shown |-> <<[card |-> cards[index + 1], translation_visible |-> show]>>,
          fired |-> FALSE, index |-> index, show |-> show]

\* if st.session_state.flashcards: the card, then the two buttons.
CardSection(trigger, cards, index, show) ==
    IF cards = <<>>
        THEN [shown |-> NoCard, fired |-> FALSE, index |-> index, show |-> show]
    ELSE IF trigger = "reveal"
        THEN [shown |-> <<[card |-> cards[index + 1], translation_visible |-> show]>>,
              fired |-> TRUE, index |-> index, show |-> ~show]
    ELSE IF trigger = "advance"
        THEN [shown |-> <<[card |-> cards[index + 1], translation_visible |-> show]>>,
              fired |-> TRUE, index |-> NextIndex(index, Len(cards)), show |-> FALSE]
    ELSE [shown |-> <<[card |-> cards[index + 1], translation_visible |-> show]>>,
          fired |-> FALSE, index |-> index, show |-> show]

\* One script run of a session whose state is initialized.  trigger is the
\* widget the user acted on, files what the uploader holds during the run,
\* perm the order sample() draws should the run start a session.  (In a
\* session whose load raised, every run raises again in init_session_state
\* and changes nothing.)
ScriptRun(trigger, files, perm) ==
    LET merged == UploadBlock(vocab_df, files)
        overview == OverviewSection(trigger, merged.df, flashcards, file)
        started == StartSection(trigger, overview.df, overview.cards,
                                current_index, show_translation, perm)
        card == CardSection(trigger, started.cards, started.index, started.show)
    IN  /\ status = "ok"
        /\ status' = status
        /\ uploaded_files' = files
        /\ success_count' = merged.count
        /\ overview_shown' = overview.shown
        /\ file' = overview.file
        /\ vocab_df' = overview.df
        /\ flashcards' = started.cards
        /\ shown' = card.shown
        /\ current_index' = card.index
        /\ show_translation' = card.show
        /\ op' = IF overview.fired \/ card.fired \/ trigger \in {"start", "upload"}
                     THEN trigger
                     ELSE "none"
        /\ UNCHANGED parserVars

\* init_session_state() of a new session followed by the rest of the first
\* script run, which renders the page with nothing uploaded and no button
\* clicked.
FirstRun(f) ==
    LET loaded == load_saved_vocabularies(f)
    IN  [status |-> IF loaded.raised THEN "error" ELSE "ok",
         vocab_df |-> loaded.df,
         overview_shown |-> (~loaded.raised /\ loaded.df # EmptyFrame)]

----------------------------------------------------------------------------
(* Actions                                                                 *)

\* The user adds a document to the uploader.
UploadFile ==
    /\ Len(uploaded_files) < MaxUploads
    /\ \E doc \in Docs : ScriptRun("upload", Append(uploaded_files, doc), <<>>)

\* The user removes a document from the uploader.
RemoveFile ==
    \E i \in 1..Len(uploaded_files) :
        ScriptRun("upload",
                  SubSeq(uploaded_files, 1, i - 1)
                      \o SubSeq(uploaded_files, i + 1, Len(uploaded_files)),
                  <<>>)

\* The buttons of the overview can be clicked when the last run rendered them.
ClickSave == overview_shown /\ ScriptRun("save", uploaded_files, <<>>)

ClickClear == overview_shown /\ ScriptRun("clear", uploaded_files, <<>>)

ClickStart ==
    \E perm \in Perms(Len(UploadBlock(vocab_df, uploaded_files).df)) :
        ScriptRun("start", uploaded_files, perm)

\* The buttons of the flashcard can be clicked when the last run rendered it.
ClickReveal == shown # NoCard /\ ScriptRun("reveal", uploaded_files, <<>>)

ClickAdvance == shown # NoCard /\ ScriptRun("advance", uploaded_files, <<>>)

\* The user opens the app in a new browser session: session_state and the
\* uploader start empty, and the store is loaded from the file.
NewSession ==
    LET first == FirstRun(file)
    IN  /\ status' = first.status
        /\ vocab_df' = first.vocab_df
        /\ overview_shown' = first.overview_shown
        /\ flashcards' = <<>>
        /\ current_index' = 0
        /\ show_translation' = FALSE
        /\ uploaded_files' = <<>>
        /\ success_count' = NoCount
        /\ shown' = NoCard
        /\ op' = "init"
        /\ UNCHANGED file
        /\ UNCHANGED parserVars

\* The files the first session of the model can find on disk.
InitialFiles == {AbsentFile, UnreadableFile}

Init ==
    /\ file \in InitialFiles
    /\ status = FirstRun(file).status
    /\ vocab_df = FirstRun(file).vocab_df
    /\ overview_shown = FirstRun(file).overview_shown
    /\ flashcards = <<>>
    /\ current_index = 0
    /\ show_translation = FALSE
    /\ uploaded_files = <<>>
    /\ success_count = NoCount
    /\ shown = NoCard
    /\ op = "init"
    /\ text = <<>>
    /\ parsed = FALSE
    /\ vocab_pairs = <<>>

Next ==
    \/ UploadFile
    \/ RemoveFile
    \/ ClickSave
    \/ ClickClear
    \/ ClickStart
    \/ ClickReveal
    \/ ClickAdvance
    \/ NewSession

Spec == Init /\ [][Next]_vars

----------------------------------------------------------------------------
(* Parser harness: parse_vocabulary applied to every text of at most       *)
(* MaxTextLen characters of Alphabet.                                      *)

Texts == UNION {[1..n -> Alphabet] : n \in 0..MaxTextLen}

ParserInit ==
    /\ text \in Texts
    /\ parsed = FALSE
    /\ vocab_pairs = <<>>
    /\ file = AbsentFile
    /\ status = "ok"
    /\ vocab_df = EmptyFrame
    /\ overview_shown = FALSE
    /\ flashcards = <<>>
    /\ current_index = 0
    /\ show_translation = FALSE
    /\ uploaded_files = <<>>
    /\ success_count = NoCount
    /\ shown = NoCard
    /\ op = "init"

ParseText ==
    /\ ~parsed
    /\ parsed' = TRUE
    /\ vocab_pairs' = parse_vocabulary(text)
    /\ UNCHANGED text
    /\ UNCHANGED appVars

ParserNext == ParseText

ParserSpec == ParserInit /\ [][ParserNext]_vars

----------------------------------------------------------------------------
(* Properties of the store and the session                                 *)

\* How often x occurs in seq.
CountIn(seq, x) == Cardinality({k \in 1..Len(seq) : seq[k] = x})

IsPermutationOf(a, b) ==
    /\ Len(a) = Len(b)
    /\ \A k \in 1..Len(b) : CountIn(a, b[k]) = CountIn(b, b[k])

\* C1: the count a run reports for its merge is the number of rows the merge
\* added to the store, len(store after) - len(store before).  (A run that
\* clears the store after the merge is left out: its store ends empty.)
C1_ReportedCountIsRowsAdded ==
    [][(success_count' # NoCount /\ op' # "clear")
           => success_count' = <<Len(vocab_df') - Len(vocab_df)>>]_vars

C3_PositionInRange ==
    flashcards # <<>> => (0 <= current_index /\ current_index < Len(flashcards))

\* The last card was shown and advance wrapped around to the first.
C3_Witness ==
    /\ op = "advance"
    /\ Len(flashcards) = 3
    /\ current_index = 0
    /\ shown # NoCard
    /\ shown[1].card = flashcards[3]

\* i after k steps of NextIndex in a session of n cards.
RECURSIVE AdvanceTimes(_, _, _)
AdvanceTimes(i, n, k) ==
    IF k = 0 THEN i ELSE AdvanceTimes(NextIndex(i, n), n, k - 1)

\* C4: advance sets position to (position + 1) mod len(cards), hides the
\* translation and keeps the cards; N advances in a session of N cards lead
\* back to the position they started from.
C4_AdvanceWrapsAndHides ==
    /\ [][op' = "advance" =>
              /\ flashcards # <<>>
              /\ current_index' = (current_index + 1) % Len(flashcards)
              /\ show_translation' = FALSE
              /\ flashcards' = flashcards]_vars
    /\ [](flashcards # <<>> =>
              AdvanceTimes(current_index, Len(flashcards), Len(flashcards))
                  = current_index)

\* advance has acted on a revealed card that was not the last one.
C4_Witness ==
    /\ op = "advance"
    /\ Len(flashcards) = 3
    /\ current_index = 2
    /\ shown # NoCard
    /\ shown[1].translation_visible
    /\ ~show_translation

\* C5: start on a non-empty store makes the cards a permutation of the rows
\* the store holds at that moment, position 0, translation hidden.
C5_StartShufflesStore ==
    [][(op' = "start" /\ vocab_df' # EmptyFrame) =>
           /\ IsPermutationOf(flashcards', vocab_df')
           /\ current_index' = 0
           /\ show_translation' = FALSE]_vars

\* A session of three cards in another order than the store's.
C5_Witness ==
    /\ op = "start"
    /\ Len(vocab_df) = 3
    /\ flashcards # vocab_df
    /\ IsPermutationOf(flashcards, vocab_df)

\* C6: clear empties the store and the session and leaves the file as it is.
C6_ClearEmptiesStoreAndSession ==
    [][op' = "clear" =>
           /\ vocab_df' = EmptyFrame
           /\ flashcards' = <<>>
           /\ file' = file]_vars

\* The store was cleared while the file still holds the rows saved before.
C6_Witness ==
    /\ op = "clear"
    /\ vocab_df = EmptyFrame
    /\ flashcards = <<>>
    /\ file.state = "csv"
    /\ file.rows # <<>>

\* C7: the file changes only in a run that saves, and after a save it holds
\* the rows of the whole store and nothing else.
C7_FileChangesOnlyOnSave ==
    [][/\ file' # file => op' = "save"
       /\ op' = "save" => file' = CsvFile(to_csv(vocab_df'))]_vars

\* A save has run and the file holds the one row of the store.
C7_Witness ==
    /\ op = "save"
    /\ Len(vocab_df) = 1
    /\ file = CsvFile(to_csv(vocab_df))

\* C8: load never fails its caller; an unreadable file gives an empty store.
C8_LoadNeverFails == status = "ok"

----------------------------------------------------------------------------
(* Properties of the parser                                                *)

\* The lines of the harness text as the loop body sees them after
\* line = line.strip().
TrimmedLines == [k \in 1..Len(SplitLines(text)) |-> Strip(SplitLines(text)[k])]

HasSeparator(line) ==
    \E k \in 1..Len(SUPPORTED_SEPARATORS) : Contains(SUPPORTED_SEPARATORS[k], line)

\* The first separator of the list that occurs anywhere in the line.
PrioritySeparator(line) ==
    LET k == CHOOSE x \in 1..Len(SUPPORTED_SEPARATORS) :
                 /\ Contains(SUPPORTED_SEPARATORS[x], line)
                 /\ \A y \in 1..(x - 1) : ~Contains(SUPPORTED_SEPARATORS[y], line)
    IN  SUPPORTED_SEPARATORS[k]

\* sep occurs in line at position i and nowhere before i.
IsFirstAt(sep, line, i) ==
    /\ i \in 1..(Len(line) - Len(sep) + 1)
    /\ SubSeq(line, i, i + Len(sep) - 1) = sep
    /\ \A j \in 1..(i - 1) : SubSeq(line, j, j + Len(sep) - 1) # sep

\* y is x without its leading and trailing whitespace.
IsTrimOf(y, x) ==
    \E a \in 1..(Len(x) + 1) : \E b \in 0..Len(x) :
        /\ y = SubSeq(x, a, b)
        /\ \A k \in 1..(a - 1) : x[k] \in Whitespace
        /\ \A k \in (b + 1)..Len(x) : x[k] \in Whitespace
        /\ y # <<>> => (y[1] \notin Whitespace /\ y[Len(y)] \notin Whitespace)

NonBlank(s) == \E k \in 1..Len(s) : s[k] \notin Whitespace

\* pair is what the line gives when it is split in two at the first
\* occurrence of its priority separator.
IsPrioritySplit(pair, line) ==
    /\ HasSeparator(line)
    /\ \E i \in 1..Len(line) :
           /\ IsFirstAt(PrioritySeparator(line), line, i)
           /\ IsTrimOf(pair.word, SubSeq(line, 1, i - 1))
           /\ IsTrimOf(pair.translation,
                       SubSeq(line, i + Len(PrioritySeparator(line)), Len(line)))

\* C9: every pair the parser emits comes from a line split in two at the
\* first occurrence of the first separator of the list that occurs anywhere
\* in the line.
C9_SplitAtPrioritySeparator ==
    parsed =>
        \A k \in 1..Len(vocab_pairs) :
            \E j \in 1..Len(TrimmedLines) :
                IsPrioritySplit(vocab_pairs[k], TrimmedLines[j])

\* "a=a:a": the colon wins over the equals sign to its left.
C9_Witness ==
    /\ parsed
    /\ text = <<"a", "=", "a", ":", "a">>
    /\ vocab_pairs = <<Row(<<"a", "=", "a">>, <<"a">>)>>

\* The line has a separator and both parts around the first occurrence of
\* its priority separator hold more than whitespace.
LineYieldsPair(line) ==
    /\ HasSeparator(line)
    /\ \E i \in 1..Len(line) :
           /\ IsFirstAt(PrioritySeparator(line), line, i)
           /\ NonBlank(SubSeq(line, 1, i - 1))
           /\ NonBlank(SubSeq(line, i + Len(PrioritySeparator(line)), Len(line)))

\* C10: a line yields a pair exactly when a separator occurs in it and both
\* parts around the first occurrence of its priority separator are non-empty
\* after trimming; every emitted pair has a non-empty trimmed word and
\* translation.
C10_PairIffBothPartsNonEmpty ==
    parsed =>
        /\ Len(vocab_pairs)
               = Cardinality({j \in 1..Len(TrimmedLines) : LineYieldsPair(TrimmedLines[j])})
        /\ \A k \in 1..Len(vocab_pairs) :
               /\ vocab_pairs[k].word # <<>>
               /\ vocab_pairs[k].translation # <<>>
               /\ IsTrimOf(vocab_pairs[k].word, vocab_pairs[k].word)
               /\ IsTrimOf(vocab_pairs[k].translation, vocab_pairs[k].translation)

\* ":a=a": the colon is found, its left part is empty, "=" is not tried.
C10_Witness ==
    /\ parsed
    /\ text = <<":", "a", "=", "a">>
    /\ vocab_pairs = <<>>

----------------------------------------------------------------------------
(* Properties of the merge                                                 *)

\* The sequences of documents the uploader can hold.
FileLists == UNION {[1..n -> Docs] : n \in 0..MaxUploads}

\* C11: merging the same pairs a second time changes nothing: for every
\* list of documents, the upload block applied to its own result returns
\* that result; and a rerun with the same documents in the uploader, after
\* a run that merged them, leaves the store as it is.
C11_MergeIsIdempotent ==
    /\ [](\A files \in FileLists :
              UploadBlock(UploadBlock(vocab_df, files).df, files).df
                  = UploadBlock(vocab_df, files).df)
    /\ [][(uploaded_files' = uploaded_files
              /\ op # "clear" /\ op' \notin {"clear", "init"})
           => vocab_df' = vocab_df]_vars

\* A button was clicked with a document in the uploader that an earlier run
\* had merged.
C11_Witness ==
    /\ op = "reveal"
    /\ uploaded_files = <<DocRepeat>>
    /\ Len(vocab_df) = 2

\* The index of the first row of df that equals r.
FirstIndex(df, r) ==
    CHOOSE i \in 1..Len(df) : df[i] = r /\ \A j \in 1..(i - 1) : df[j] # r

\* result holds every row of df once, in the order of first occurrence.
IsFirstOccurrences(result, df) ==
    /\ NoDuplicates(result)
    /\ {result[k] : k \in 1..Len(result)} = {df[k] : k \in 1..Len(df)}
    /\ \A i, j \in 1..Len(result) :
           i < j => FirstIndex(df, result[i]) < FirstIndex(df, result[j])

\* C12: a merge returns the rows of the store followed by the new pairs,
\* each row once, in the order of first occurrence; the rows of a store
\* without equal rows stay where they are and the pairs not yet present
\* follow them.  (Without a new pair the store is left as it is.)
C12_MergeKeepsOrderAppendsNew ==
    [][op' \notin {"clear", "init"} =>
           IF AllVocab(uploaded_files') = <<>>
               THEN vocab_df' = vocab_df
               ELSE /\ IsFirstOccurrences(vocab_df',
                                          vocab_df \o AllVocab(uploaded_files'))
                    /\ NoDuplicates(vocab_df) =>
                           SubSeq(vocab_df', 1, Len(vocab_df)) = vocab_df]_vars

\* [A, B, A] was merged into a store of two rows, one of them A.
C12_Witness ==
    /\ op = "upload"
    /\ uploaded_files = <<DocRepeat>>
    /\ vocab_df = <<Row(<<"a">>, <<"b">>), Row(NaN, <<"a">>),
                    Row(<<"N", "A">>, <<"a">>)>>

----------------------------------------------------------------------------
(* Frame properties of the session                                         *)

\* C13: a run that merges an upload or saves, while a session is active,
\* leaves the cards, the position and the reveal flag of the session as
\* they are.
C13_MergeAndSaveKeepSession ==
    [][(op' \in {"upload", "save"} /\ flashcards # <<>>) =>
           /\ flashcards' = flashcards
           /\ current_index' = current_index
           /\ show_translation' = show_translation]_vars

\* An upload grew the store beyond the cards of the running session.
C13_Witness ==
    /\ op = "upload"
    /\ flashcards # <<>>
    /\ Len(vocab_df) > Len(flashcards)
    /\ current_index > 0

\* C14: the reveal button flips the reveal flag and changes neither the
\* cards, the position, the store nor the file; the second of two toggles
\* in a row restores the flag the first one found (the one it rendered).
C14_RevealOnlyFlips ==
    [][op' = "reveal" =>
           /\ show_translation' = ~show_translation
           /\ flashcards' = flashcards
           /\ current_index' = current_index
           /\ vocab_df' = vocab_df
           /\ file' = file
           /\ op = "reveal" => show_translation' = shown[1].translation_visible]_vars

\* The second of two toggles: the run rendered the translation and hid it.
C14_Witness ==
    /\ op = "reveal"
    /\ shown # NoCard
    /\ shown[1].translation_visible
    /\ ~show_translation

\* C15: start on a store without rows creates no session and leaves the
\* cards, the position, the reveal flag, the store and the file as they are.
C15_StartOnEmptyStoreIsNoOp ==
    [][(op' = "start" /\ vocab_df' = EmptyFrame) =>
           /\ flashcards' = <<>>
           /\ flashcards' = flashcards
           /\ current_index' = current_index
           /\ show_translation' = show_translation
           /\ vocab_df' = vocab_df
           /\ file' = file]_vars

\* start was clicked on an empty store; the position of the session that
\* a clear had ended is still there.
C15_Witness ==
    /\ op = "start"
    /\ vocab_df = EmptyFrame
    /\ flashcards = <<>>
    /\ current_index > 0

----------------------------------------------------------------------------
(* Persistence, rendering and the life of the store                        *)

\* C16: a save followed by a load, with no other write to the file between
\* them, returns the rows that were saved, in the same order.
C16_SaveThenLoadRoundTrips ==
    [][(op = "save" /\ op' = "init") => (status' = "ok" /\ vocab_df' = vocab_df)]_vars

\* C17: the flashcard a run renders is the card at the position, and shows
\* the translation exactly when the reveal flag is set, that the run leaves
\* behind.
C17_RenderedCardAgreesWithState ==
    shown # NoCard =>
        /\ flashcards # <<>>
        /\ shown[1].card = flashcards[current_index + 1]
        /\ shown[1].translation_visible = show_translation

\* C18: an empty store stays empty in every run of the session in which the
\* user does not change the uploader, whatever documents the uploader holds.
C18_ClearedStoreStaysEmpty ==
    [][(vocab_df = EmptyFrame /\ uploaded_files' = uploaded_files /\ op' # "init")
           => vocab_df' = EmptyFrame]_vars

\* C19: after a clear the user can save, and the file then holds no row.
C19_SaveAfterClearWritesEmptyFile ==
    [][(op = "clear" /\ ClickSave) => (op' = "save" /\ file' = CsvFile(<<>>))]_vars

\* C20: every card of the session is a row of the store.
C20_CardsAreStoreRows ==
    \A k \in 1..Len(flashcards) : \E j \in 1..Len(vocab_df) : flashcards[k] = vocab_df[j]

\* A session of three cards is under way, the translation of its second
\* card revealed.
C20_Witness ==
    /\ Len(flashcards) = 3
    /\ Len(vocab_df) = 3
    /\ current_index = 1
    /\ show_translation

====
